---- MODULE Spec2Model ----
(***************************************************************************)
(* A model of the parser-combinator core of src/index.ts.                  *)
(*                                                                         *)
(* A Parser wraps a pure function from ParserState to ParserState.  The    *)
(* model represents a Parser as a record naming its constructor and its    *)
(* arguments, and ParserFn(parser, state) is the wrapped                   *)
(* parserStateTransformerFn computed as the source computes it.            *)
(*                                                                         *)
(* Every application yields an outcome record:                             *)
(*   halts : TRUE when the application returns a state; FALSE when it      *)
(*           never returns (a while loop whose exit is never reached) or   *)
(*           ends by throwing,                                             *)
(*   thrown: TRUE when the application ends by throwing an Error,          *)
(*   state : the ParserState returned (meaningful only when halts),        *)
(*   calls : the direct calls the combinator made, in order: applications  *)
(*           of sub-parsers (with argument and returned state) and calls   *)
(*           of map/chain callbacks.                                       *)
(***************************************************************************)
EXTENDS Integers, Sequences, FiniteSets, TLC

\* The runs made of the parser so far, oldest first: for each the target,
\* the state run built and what the run yielded.
VARIABLE runs

\* ---------------------------------------------------------------- bounds
\* Longest target text.
MaxLen == 3
\* Longest literal handed to str by the Str action.
MaxLit == 2
\* Longest parser list handed to sequenceOf and choice.
MaxParsers == 2
\* The deepest nesting of brackets in a text handed to a recursive grammar.
MaxDepth == 2
\* The most runs made of one parser.
MaxRuns == 3
\* The most bytes in a binary target.
MaxBytes == 2

\* Characters of the target texts: a letter, a digit, and a character that
\* is in neither class (it lies between "Z" and "a" in ASCII).
Alphabet == {"a", "1", "_"}
\* The same with a letter of the other case, for the primitives.
WideAlphabet == Alphabet \cup {"Z"}

UpperCase == {"A","B","C","D","E","F","G","H","I","J","K","L","M",
              "N","O","P","Q","R","S","T","U","V","W","X","Y","Z"}
LowerCase == {"a","b","c","d","e","f","g","h","i","j","k","l","m",
              "n","o","p","q","r","s","t","u","v","w","x","y","z"}
DigitChars == {"0","1","2","3","4","5","6","7","8","9"}

\* Mutant of LETTERS_REGEX: the range A-z, which also holds the
\* punctuation between the two cases.
LETTERS_REGEX_Az == UpperCase \cup LowerCase \cup {"[", "]", "^", "_"}

\* The character classes of the two regular expressions.
LETTERS_REGEX == UpperCase \cup LowerCase
DIGITS_REGEX == DigitChars

\* All texts of at most n characters of alphabet.
Texts(alphabet, n) == UNION {[1..k -> alphabet] : k \in 0..n}

\* ---------------------------------------------------------------- values
\* ParseResult / StateResult: null, a string, a number, or an array of
\* results; a
\* callback may also produce undefined.
Null == [t |-> "null"]
Undefined == [t |-> "undefined"]
StrV(s) == [t |-> "str", v |-> s]
NumV(n) == [t |-> "num", v |-> n]
ArrV(xs) == [t |-> "arr", v |-> xs]
isArray(r) == r.t = "arr"

\* A text target and a binary target (typeof target === "string" or not).
TextTarget(chars) == [kind |-> "string", chars |-> chars]
DataViewTarget(bytes) == [kind |-> "DataView", bytes |-> bytes]

\* ---------------------------------------------------------------- state
\* {...state, index, result}
updateState(state, index, result) ==
  [index |-> index, result |-> result] @@ state

\* Mutant of updateResults: the index is not carried over.
updateResults_resetsIndex(state, results) ==
  [result |-> results, index |-> 0] @@ state

\* {...state, result: results}
updateResults(state, results) ==
  [result |-> results] @@ state

\* Mutant of updateError: a failure goes back to the start of the target.
updateError_rewinds(state, errorMessage) ==
  [errorMessage |-> errorMessage, isError |-> TRUE, index |-> 0] @@ state

\* {...state, errorMessage, isError: true}
updateError(state, errorMessage) ==
  [errorMessage |-> errorMessage, isError |-> TRUE] @@ state

\* The state Parser.run builds.
initialState(target) ==
  [target |-> target, index |-> 0, result |-> Null, isError |-> FALSE]

\* ---------------------------------------------------------------- strings
\* String.prototype.slice(from) for 0 <= from.
slice(str, from) == SubSeq(str, from + 1, Len(str))

\* String.prototype.slice(from, to) for 0 <= from <= to.
slice2(str, from, to) ==
  SubSeq(str, from + 1, IF to < Len(str) THEN to ELSE Len(str))

\* String.prototype.startsWith(s).
startsWith(str, s) ==
  /\ Len(s) <= Len(str)
  /\ SubSeq(str, 1, Len(s)) = s

\* str.match(/^[class]+/): the longest prefix of class characters; the
\* match is null when that prefix is empty.
RECURSIVE classRun(_, _)
classRun(class, str) ==
  IF str # <<>> /\ Head(str) \in class
  THEN <<Head(str)>> \o classRun(class, Tail(str))
  ELSE <<>>

\* ---------------------------------------------------------------- outcomes
Returns(state, calls) ==
  [halts |-> TRUE, thrown |-> FALSE, state |-> state, calls |-> calls]
Diverges(state, calls) ==
  [halts |-> FALSE, thrown |-> FALSE, state |-> state, calls |-> calls]
Throws(state, calls) ==
  [halts |-> FALSE, thrown |-> TRUE, state |-> state, calls |-> calls]

\* Mutant of Abrupt: an exception thrown by the sub-parser is caught and
\* turned into a failed state.
Abrupt_caught(r, state, calls) ==
  IF r.thrown
  THEN Returns(updateError(state, <<"caught">>), calls)
  ELSE Diverges(state, calls)

\* A parser whose call of a sub-parser or callback r does not return: no
\* call site has a try/catch or a way out of a loop that does not end, so
\* the caller does not return either, and an exception goes on up.
Abrupt(r, state, calls) ==
  [halts |-> FALSE, thrown |-> r.thrown, state |-> state, calls |-> calls]

\* One direct call of a sub-parser's parserStateTransformerFn.
Applied(parser, arg, outcome) ==
  [call |-> "parser", parser |-> parser, arg |-> arg,
   halts |-> outcome.halts, thrown |-> outcome.thrown,
   ret |-> outcome.state]

\* One direct call of a callback handed to map or chain.
Called(fn, arg) == [call |-> "fn", fn |-> fn, arg |-> arg]

\* ---------------------------------------------------------------- parsers
str(s) == [op |-> "str", s |-> s]
letters == [op |-> "letters"]
digits == [op |-> "digits"]
sequenceOf(parsers) == [op |-> "sequenceOf", parsers |-> parsers]
choice(parsers) == [op |-> "choice", parsers |-> parsers]
many(parser) == [op |-> "many", parser |-> parser]
many1(parser) == [op |-> "many1", parser |-> parser]
map(parser, fn) == [op |-> "map", parser |-> parser, fn |-> fn]
chain(parser, fn) == [op |-> "chain", parser |-> parser, fn |-> fn]
errorMap(parser, fn) == [op |-> "errorMap", parser |-> parser, fn |-> fn]
sepBy(separatorParser, valueParser) ==
  [op |-> "sepBy", separatorParser |-> separatorParser,
   valueParser |-> valueParser]
sepBy1(separatorParser, valueParser) ==
  [op |-> "sepBy1", separatorParser |-> separatorParser,
   valueParser |-> valueParser]
lazy(parserThunk) == [op |-> "lazy", parserThunk |-> parserThunk]
Bit == [op |-> "Bit"]
Zero == [op |-> "Zero"]
One == [op |-> "One"]
fail(errMsg) == [op |-> "fail", errMsg |-> errMsg]
succeed(value) == [op |-> "succeed", value |-> value]
contextual(generatorFn) ==
  chain(succeed(Null), [fn |-> "contextual", generatorFn |-> generatorFn])
between(leftParser, rightParser, contentParser) ==
  map(sequenceOf(<<leftParser, contentParser, rightParser>>), "between")

\* ---------------------------------------------------------------- primitives
\* The longest common prefix of two texts.
RECURSIVE commonPrefix(_, _)
commonPrefix(x, y) ==
  IF x # <<>> /\ y # <<>> /\ Head(x) = Head(y)
  THEN <<Head(x)>> \o commonPrefix(Tail(x), Tail(y))
  ELSE <<>>

\* Mutant of StrMismatch: a mismatch still consumes the matching prefix.
StrMismatch_partial(s, parserState) ==
  LET index == parserState.index
      target == parserState.target
      eaten == Len(commonPrefix(s, slice(target.chars, index)))
  IN updateError(
       [index |-> index + eaten] @@ parserState,
       <<"str: Tried to match ">> \o s \o <<", but got ">>
         \o slice2(target.chars, index, index + Len(s)))

\* str, the mismatch branch (lines 136-142).
StrMismatch(s, parserState) ==
  LET index == parserState.index
      target == parserState.target
  IN updateError(
       parserState,
       <<"str: Tried to match ">> \o s \o <<", but got ">>
         \o slice2(target.chars, index, index + Len(s)))

\* str(s), the wrapped function.
StrFn(s, parserState) ==
  LET index == parserState.index
      target == parserState.target
  IN IF parserState.isError THEN parserState
     ELSE IF target.kind = "string"
     THEN LET slicedString == slice(target.chars, index)
          IN IF Len(slicedString) = 0
             THEN updateError(
                    parserState,
                    <<"str: Tried to match ">> \o s
                      \o <<", but got end of input">>)
             ELSE IF startsWith(slicedString, s)
             THEN updateState(parserState, index + Len(s), StrV(s))
             ELSE StrMismatch(s, parserState)
     ELSE updateError(
            parserState,
            <<"str: Tried to match ">> \o s \o <<" with non-string">>)

\* The body shared by letters and digits: name is the parser's name in its
\* messages, class the character class of its regular expression.
ClassFn(name, class, parserState) ==
  LET index == parserState.index
      target == parserState.target
  IN IF parserState.isError THEN parserState
     ELSE IF target.kind = "string"
     THEN LET slicedString == slice(target.chars, index)
              regexMatch == classRun(class, slicedString)
          IN IF Len(slicedString) = 0
             THEN updateError(
                    parserState,
                    <<name, ": Got unexpected  end of input">>)
             ELSE IF regexMatch # <<>>
             THEN updateState(
                    parserState, index + Len(regexMatch), StrV(regexMatch))
             ELSE updateError(
                    parserState,
                    <<name, ": Couldn't match ", name, " at index ",
                      ToString(index)>>)
     ELSE updateError(
            parserState,
            <<"letters: Tried to match ", "[object DataView]",
              " with non-string">>)

LettersFn(parserState) == ClassFn("letters", LETTERS_REGEX, parserState)
DigitsFn(parserState) == ClassFn("digits", DIGITS_REGEX, parserState)

\* ---------------------------------------------------------------- bits
\* Mutant of bitOffset: the least significant bit comes first.
bitOffset_lsbFirst(index) == index % 8

\* 7 - (parserState.index % 8)
bitOffset(index) == 7 - (index % 8)

\* (byte & (1 << bitOffset)) >> bitOffset
bitOf(byte, offset) == (byte \div (2 ^ offset)) % 2

\* Bit, the wrapped function.  On a target that is not a DataView the
\* function comes to its end without a return statement: it returns
\* undefined.
BitFn(parserState) ==
  IF parserState.isError THEN parserState
  ELSE IF parserState.target.kind = "DataView"
  THEN LET byteOffset == parserState.index \div 8
       IN IF byteOffset >= Len(parserState.target.bytes)
          THEN updateError(parserState, <<"Bit: Unexpected end of input">>)
          ELSE LET byte == parserState.target.bytes[byteOffset + 1]
                   result == bitOf(byte, bitOffset(parserState.index))
               IN updateState(parserState, parserState.index + 1,
                              NumV(result))
  ELSE Undefined

\* The body shared by Zero and One: name is the parser's name in its
\* messages, expected the bit it asks for.
ExpectBitFn(name, expected, parserState) ==
  IF parserState.isError THEN parserState
  ELSE IF parserState.target.kind = "DataView"
  THEN LET byteOffset == parserState.index \div 8
       IN IF byteOffset >= Len(parserState.target.bytes)
          THEN updateError(parserState,
                           <<name, ": Unexpected end of input">>)
          ELSE LET byte == parserState.target.bytes[byteOffset + 1]
                   result == bitOf(byte, bitOffset(parserState.index))
               IN IF result # expected
                  THEN updateError(
                         parserState,
                         <<name, ": expected to get ", ToString(expected),
                           ", but got ", ToString(result), " at index ",
                           ToString(parserState.index)>>)
                  ELSE updateState(parserState, parserState.index + 1,
                                   NumV(result))
  ELSE Undefined

ZeroFn(parserState) == ExpectBitFn("Zero", 0, parserState)
OneFn(parserState) == ExpectBitFn("One", 1, parserState)

\* ---------------------------------------------------------------- callbacks
\* The callbacks handed to map: functions of the parsed result.
MapFns == {"toArray", "toNull"}

\* Mutant of betweenFn: the middle element itself.
betweenFn_unwrapped(result) ==
  IF result.t = "str"
  THEN (IF Len(result.v) >= 2 THEN StrV(<<result.v[2]>>) ELSE Undefined)
  ELSE IF isArray(result)
  THEN (IF Len(result.v) >= 2 THEN result.v[2] ELSE Undefined)
  ELSE result

\* between, lines 367-373: the callback between hands to map.  result[1]
\* of a string is its second character, or undefined.
betweenFn(result) ==
  IF result.t = "str"
  THEN (IF Len(result.v) >= 2 THEN StrV(<<result.v[2]>>) ELSE Undefined)
  ELSE IF isArray(result)
  THEN ArrV(SubSeq(result.v, 2, Len(result.v) - 1))
  ELSE result

mapFn(fn, result) ==
  IF fn = "toArray" THEN ArrV(<<result>>)
  ELSE IF fn = "between" THEN betweenFn(result)
  ELSE Null

\* The callbacks handed to chain: functions from the parsed result to the
\* next Parser.  "again" expects the text just parsed once more; "byKind"
\* dispatches on the parsed text.
ChainFns == {[fn |-> "again"], [fn |-> "byKind"]}

\* The generator functions handed to contextual.  "ret" returns at once;
\* "pair" yields letters then digits and returns both results; "typed"
\* yields a tag and then the parser the tag selects, and returns its
\* result; "notParser" yields a string; "lateNotParser" yields letters and
\* then the string parsed.
Generators == {"ret", "pair", "typed", "notParser", "lateNotParser"}

Yield(value) == [done |-> FALSE, value |-> value]
Return(value) == [done |-> TRUE, value |-> value]

\* The body of the generator function gen as a function of the values sent
\* to it so far: what it yields next, or what it returns.
generatorBody(gen, sent) ==
  CASE gen = "ret" -> Return(StrV(<<"x">>))
    [] gen = "pair" ->
         IF Len(sent) = 0 THEN Yield(letters)
         ELSE IF Len(sent) = 1 THEN Yield(digits)
         ELSE Return(ArrV(sent))
    [] gen = "typed" ->
         IF Len(sent) = 0
         THEN Yield(choice(<<str(<<"a">>), str(<<"_">>)>>))
         ELSE IF Len(sent) = 1
         THEN Yield(IF sent[1] = StrV(<<"a">>) THEN digits ELSE letters)
         ELSE Return(sent[2])
    [] gen = "notParser" ->
         IF Len(sent) = 0 THEN Yield(StrV(<<"a">>)) ELSE Return(Undefined)
    [] gen = "lateNotParser" ->
         IF Len(sent) = 0 THEN Yield(letters)
         ELSE IF Len(sent) = 1 THEN Yield(sent[1])
         ELSE Return(Undefined)

\* Mutant of generatorFn: the iterator made in the first run is kept, and
\* later runs find it finished.
generatorFn_kept(gen) ==
  [gen |-> gen, started |-> runs # <<>>, finished |-> runs # <<>>,
   sent |-> <<>>]

\* contextual, line 394: generatorFn() makes a new iterator, not started.
generatorFn(gen) ==
  [gen |-> gen, started |-> FALSE, finished |-> FALSE, sent |-> <<>>]

\* iterator.next(nextValue): the result, and the iterator as the call
\* leaves it.  The value of the first call is dropped; a finished iterator
\* answers {done: true, value: undefined}.
iteratorNext(iterator, nextValue) ==
  IF iterator.finished
  THEN [done |-> TRUE, value |-> Undefined, iterator |-> iterator]
  ELSE LET sent == IF iterator.started
                   THEN Append(iterator.sent, nextValue)
                   ELSE <<>>
           step == generatorBody(iterator.gen, sent)
       IN [done |-> step.done, value |-> step.value,
           iterator |-> [gen |-> iterator.gen, started |-> TRUE,
                         finished |-> step.done, sent |-> sent]]

\* nextParser instanceof Parser.
isParser(value) == "op" \in DOMAIN value

\* throw new Error(message), as the value of the callback that throws.
Error(message) == [op |-> "throw", message |-> message]

\* contextual, lines 396-410: runStep as a closure over the iterator.
runStepFn(iterator) == [fn |-> "runStep", iterator |-> iterator]

\* Mutant of runStep: the result of the parser is not sent to the generator.
runStep_noFeedback(iterator, nextValue) ==
  LET iteratorResult == iteratorNext(iterator, Undefined)
      nextParser == iteratorResult.value
  IN IF iteratorResult.done THEN succeed(iteratorResult.value)
     ELSE IF ~isParser(nextParser)
     THEN Error(<<"contextual: yielded values must always be parsers!">>)
     ELSE chain(nextParser, runStepFn(iteratorResult.iterator))

runStep(iterator, nextValue) ==
  LET iteratorResult == iteratorNext(iterator, nextValue)
      nextParser == iteratorResult.value
  IN IF iteratorResult.done THEN succeed(iteratorResult.value)
     ELSE IF ~isParser(nextParser)
     THEN Error(<<"contextual: yielded values must always be parsers!">>)
     ELSE chain(nextParser, runStepFn(iteratorResult.iterator))

chainFn(fn, result) ==
  IF fn.fn = "again"
  THEN (IF result.t = "str" THEN str(result.v) ELSE letters)
  ELSE IF fn.fn = "byKind"
  THEN (IF result = StrV(<<"a">>) THEN digits ELSE letters)
  ELSE IF fn.fn = "contextual"
  THEN runStep(generatorFn(fn.generatorFn), Undefined)
  ELSE runStep(fn.iterator, result)

\* The callbacks handed to errorMap: functions from the error message and
\* the index to the new message.  "atIndex" reports the index alone,
\* "expected" keeps the message and appends the index.
ErrorMapFns == {"atIndex", "expected"}
errorMapFn(fn, errorMessage, index) ==
  IF fn = "atIndex"
  THEN <<"error at index ", ToString(index)>>
  ELSE <<"expected: ">> \o errorMessage \o <<" @", ToString(index)>>

\* The thunks handed to lazy, after the grammar of the test of nested
\* expressions: a number, or an expression between brackets.
ParserThunks == {"expr", "number", "operation"}
numberParser == digits
operationParser == between(str(<<"(">>), str(<<")">>), lazy("expr"))
callThunk(thunk) ==
  CASE thunk = "expr" -> choice(<<numberParser, operationParser>>)
    [] thunk = "number" -> numberParser
    [] thunk = "operation" -> operationParser

\* ---------------------------------------------------------------- combinators
RECURSIVE ParserFn(_, _)

\* Mutant of pushResult: the step result is appended as it is.
pushResult_noFlatten(results, result) == Append(results, result)

\* sequenceOf, lines 229-235: results.push(...result) or results.push(result).
pushResult(results, result) ==
  IF isArray(result) THEN results \o result.v ELSE Append(results, result)

\* Mutant of sequenceOfError: the message is passed on without the prefix.
sequenceOfError_noPrefix(nextState) == nextState

\* sequenceOf, line 226: the state returned at the first failure.
sequenceOfError(nextState) ==
  updateError(nextState, <<"sequenceOf: ">> \o nextState.errorMessage)

\* sequenceOf, the for loop from the i-th parser on.  Reading isError of
\* the undefined that a parser returned throws a TypeError.
RECURSIVE sequenceOfLoop(_, _, _, _, _)
sequenceOfLoop(parsers, i, nextState, results, calls) ==
  IF i > Len(parsers)
  THEN Returns(IF nextState.isError THEN nextState
               ELSE updateResults(nextState, ArrV(results)),
               calls)
  ELSE LET r == ParserFn(parsers[i], nextState)
           calls2 == Append(calls, Applied(parsers[i], nextState, r))
       IN IF ~r.halts THEN Abrupt(r, nextState, calls2)
          ELSE IF r.state = Undefined THEN Throws(nextState, calls2)
          ELSE IF r.state.isError
          THEN Returns(sequenceOfError(r.state), calls2)
          ELSE sequenceOfLoop(parsers, i + 1, r.state,
                              pushResult(results, r.state.result), calls2)

\* Mutant of SequenceOfFn: no test of isError on entry.
SequenceOfFn_noGuard(parsers, parseState) ==
  sequenceOfLoop(parsers, 1, parseState, <<>>, <<>>)

\* sequenceOf(parsers), the wrapped function.
SequenceOfFn(parsers, parseState) ==
  IF parseState.isError THEN Returns(parseState, <<>>)
  ELSE sequenceOfLoop(parsers, 1, parseState, <<>>, <<>>)

\* Mutant of choiceArg: an alternative starts where the previous one failed.
choiceArg_lastFailure(parseState, lastState) ==
  [index |-> lastState.index] @@ parseState

\* choice, line 249: the state every alternative is applied to (lastState
\* is the state returned by the previous, failed, alternative).
choiceArg(parseState, lastState) == parseState

\* choice, the for loop from the i-th parser on.
RECURSIVE choiceLoop(_, _, _, _, _)
choiceLoop(parsers, i, parseState, lastState, calls) ==
  IF i > Len(parsers)
  THEN Returns(
         updateError(
           parseState,
           <<"choice: Unable to match with any parser at index ",
             ToString(parseState.index)>>),
         calls)
  ELSE LET arg == choiceArg(parseState, lastState)
           r == ParserFn(parsers[i], arg)
           calls2 == Append(calls, Applied(parsers[i], arg, r))
       IN IF ~r.halts THEN Abrupt(r, parseState, calls2)
          ELSE IF ~r.state.isError THEN Returns(r.state, calls2)
          ELSE choiceLoop(parsers, i + 1, parseState, r.state, calls2)

\* choice(parsers), the wrapped function.
ChoiceFn(parsers, parseState) ==
  IF parseState.isError THEN Returns(parseState, <<>>)
  ELSE choiceLoop(parsers, 1, parseState, parseState, <<>>)

\* Mutant of manyNext: the loop goes on from the state of the failed attempt.
manyNext_keepFailed(nextState, testState) == testState

\* many, lines 272-277: the state the loop holds after an attempt
\* that returned testState.
manyNext(nextState, testState) ==
  IF ~testState.isError THEN testState ELSE nextState

\* Mutant of manyLoop: the loop is left when an attempt succeeds without
\* moving the index.
RECURSIVE manyLoop_leftWhenIdle(_, _, _, _)
manyLoop_leftWhenIdle(parser, nextState, results, calls) ==
  LET r == ParserFn(parser, nextState)
      testState == r.state
      calls2 == Append(calls, Applied(parser, nextState, r))
      stopped == [halts |-> r.halts, thrown |-> r.thrown,
                  nextState |-> nextState, results |-> results,
                  calls |-> calls2]
  IN IF ~r.halts THEN stopped
     ELSE IF ~testState.isError /\ testState.index > nextState.index
     THEN manyLoop_leftWhenIdle(parser, testState,
                                Append(results, testState.result), calls2)
     ELSE stopped

\* The while loop of many.  It holds nextState and results; an
\* attempt that succeeds and returns the very state it was given leaves the
\* loop in the state it was in before the attempt, with done still false,
\* so its exit is never reached.
RECURSIVE manyLoop(_, _, _, _)
manyLoop(parser, nextState, results, calls) ==
  LET r == ParserFn(parser, nextState)
      testState == r.state
      calls2 == Append(calls, Applied(parser, nextState, r))
      stopped == [halts |-> r.halts, thrown |-> r.thrown,
                  nextState |-> nextState, results |-> results,
                  calls |-> calls2]
  IN IF ~r.halts THEN stopped
     ELSE IF ~testState.isError
     THEN IF testState = nextState
          THEN [stopped EXCEPT !.halts = FALSE]
          ELSE manyLoop(parser, manyNext(nextState, testState),
                        Append(results, testState.result), calls2)
     ELSE [stopped EXCEPT !.nextState = manyNext(nextState, testState)]

\* many(parser), the wrapped function.
ManyFn(parser, parseState) ==
  IF parseState.isError THEN Returns(parseState, <<>>)
  ELSE LET l == manyLoop(parser, parseState, <<>>, <<>>)
       IN IF ~l.halts THEN Abrupt(l, parseState, l.calls)
          ELSE Returns(updateResults(l.nextState, ArrV(l.results)), l.calls)

\* The while loop of many1, lines 291-299 (as that of many).
RECURSIVE many1Loop(_, _, _, _)
many1Loop(parser, nextState, results, calls) ==
  LET r == ParserFn(parser, nextState)
      testState == r.state
      calls2 == Append(calls, Applied(parser, nextState, r))
      stopped == [halts |-> r.halts, thrown |-> r.thrown,
                  nextState |-> nextState, results |-> results,
                  calls |-> calls2]
  IN IF ~r.halts THEN stopped
     ELSE IF ~testState.isError
     THEN IF testState = nextState
          THEN [stopped EXCEPT !.halts = FALSE]
          ELSE many1Loop(parser, testState,
                         Append(results, testState.result), calls2)
     ELSE stopped

\* Mutant of many1Empty: at least two repetitions are asked for.
many1Empty_lessThan2(results) == Len(results) < 2

\* many1, line 301: the test that nothing was collected.
many1Empty(results) == Len(results) = 0

\* many1(parser), the wrapped function.
Many1Fn(parser, parseState) ==
  IF parseState.isError THEN Returns(parseState, <<>>)
  ELSE LET l == many1Loop(parser, parseState, <<>>, <<>>)
       IN IF ~l.halts THEN Abrupt(l, parseState, l.calls)
          ELSE IF many1Empty(l.results)
          THEN Returns(
                 updateError(
                   parseState,
                   <<"many1: Unable to match any input using parser at index ",
                     ToString(parseState.index)>>),
                 l.calls)
          ELSE Returns(updateResults(l.nextState, ArrV(l.results)), l.calls)

\* Parser.map(fn), the wrapped function.
MapFn(parser, fn, parserState) ==
  LET r == ParserFn(parser, parserState)
      nextState == r.state
      calls == <<Applied(parser, parserState, r)>>
  IN IF ~r.halts THEN Abrupt(r, parserState, calls)
     ELSE IF nextState.isError THEN Returns(nextState, calls)
     ELSE Returns(updateResults(nextState, mapFn(fn, nextState.result)),
                  Append(calls, Called(fn, nextState.result)))

\* Mutant of chainArg: the next parser starts from the state given to the
\* chain.
chainArg_restart(parserState, nextState) ==
  [index |-> parserState.index] @@ nextState

\* chain, line 112: the state the parser returned by fn is applied to.
chainArg(parserState, nextState) == nextState

\* Parser.chain(fn), the wrapped function.
ChainFn(parser, fn, parserState) ==
  LET r == ParserFn(parser, parserState)
      nextState == r.state
      calls == <<Applied(parser, parserState, r)>>
  IN IF ~r.halts THEN Abrupt(r, parserState, calls)
     ELSE IF nextState.isError THEN Returns(nextState, calls)
     ELSE LET nextParser == chainFn(fn, nextState.result)
              arg == chainArg(parserState, nextState)
              r2 == ParserFn(nextParser, arg)
              calls1 == Append(calls, Called(fn, nextState.result))
              calls2 == Append(calls1, Applied(nextParser, arg, r2))
          IN IF nextParser.op = "throw" THEN Throws(parserState, calls1)
             ELSE IF ~r2.halts THEN Abrupt(r2, parserState, calls2)
             ELSE Returns(r2.state, calls2)

\* Mutant of sepByPush: an array result is spread into the results.
sepByPush_flatten(results, result) == pushResult(results, result)

\* sepBy, line 321: results.push(testState.result).
sepByPush(results, result) == Append(results, result)

\* The while loop of sepBy, lines 316-329.  An iteration in which value and
\* separator both succeed and leave the loop in the state it started the
\* iteration in is repeated for ever.
RECURSIVE sepByLoop(_, _, _, _, _)
sepByLoop(separatorParser, valueParser, nextState, results, calls) ==
  LET r == ParserFn(valueParser, nextState)
      testState == r.state
      calls2 == Append(calls, Applied(valueParser, nextState, r))
  IN IF ~r.halts
     THEN [halts |-> FALSE, thrown |-> r.thrown,
           nextState |-> nextState, results |-> results,
           calls |-> calls2]
     ELSE IF testState.isError
     THEN [halts |-> TRUE, thrown |-> FALSE,
           nextState |-> nextState, results |-> results,
           calls |-> calls2]
     ELSE LET results2 == sepByPush(results, testState.result)
              r2 == ParserFn(separatorParser, testState)
              separatorState == r2.state
              calls3 == Append(calls2, Applied(separatorParser, testState, r2))
          IN IF ~r2.halts
             THEN [halts |-> FALSE, thrown |-> r2.thrown,
                   nextState |-> testState,
                   results |-> results2, calls |-> calls3]
             ELSE IF separatorState.isError
             THEN [halts |-> TRUE, thrown |-> FALSE,
                   nextState |-> testState,
                   results |-> results2, calls |-> calls3]
             ELSE IF separatorState = nextState
             THEN [halts |-> FALSE, thrown |-> FALSE,
                   nextState |-> separatorState,
                   results |-> results2, calls |-> calls3]
             ELSE sepByLoop(separatorParser, valueParser, separatorState,
                            results2, calls3)

\* sepBy(separatorParser)(valueParser), the wrapped function.
SepByFn(separatorParser, valueParser, parserState) ==
  LET l == sepByLoop(separatorParser, valueParser, parserState, <<>>, <<>>)
  IN IF ~l.halts THEN Abrupt(l, parserState, l.calls)
     ELSE Returns(updateResults(l.nextState, ArrV(l.results)), l.calls)

\* sepBy1, lines 344-346: only a string result is pushed.
sepBy1Push(results, result) ==
  IF result.t = "str" THEN Append(results, result) ELSE results

\* The while loop of sepBy1, lines 340-354.
RECURSIVE sepBy1Loop(_, _, _, _, _)
sepBy1Loop(separatorParser, valueParser, nextState, results, calls) ==
  LET r == ParserFn(valueParser, nextState)
      testState == r.state
      calls2 == Append(calls, Applied(valueParser, nextState, r))
  IN IF ~r.halts
     THEN [halts |-> FALSE, thrown |-> r.thrown,
           nextState |-> nextState, results |-> results,
           calls |-> calls2]
     ELSE IF testState.isError
     THEN [halts |-> TRUE, thrown |-> FALSE,
           nextState |-> nextState, results |-> results,
           calls |-> calls2]
     ELSE LET results2 == sepBy1Push(results, testState.result)
              r2 == ParserFn(separatorParser, testState)
              separatorState == r2.state
              calls3 == Append(calls2, Applied(separatorParser, testState, r2))
          IN IF ~r2.halts
             THEN [halts |-> FALSE, thrown |-> r2.thrown,
                   nextState |-> testState,
                   results |-> results2, calls |-> calls3]
             ELSE IF separatorState.isError
             THEN [halts |-> TRUE, thrown |-> FALSE,
                   nextState |-> testState,
                   results |-> results2, calls |-> calls3]
             ELSE IF separatorState = nextState
             THEN [halts |-> FALSE, thrown |-> FALSE,
                   nextState |-> separatorState,
                   results |-> results2, calls |-> calls3]
             ELSE sepBy1Loop(separatorParser, valueParser, separatorState,
                             results2, calls3)

\* sepBy1(separatorParser)(valueParser), the wrapped function.
SepBy1Fn(separatorParser, valueParser, parserState) ==
  LET l == sepBy1Loop(separatorParser, valueParser, parserState, <<>>, <<>>)
  IN IF ~l.halts THEN Abrupt(l, parserState, l.calls)
     ELSE IF Len(l.results) < 1
     THEN Returns(
            updateError(
              parserState,
              <<"sep1: Unable to parse any results at index ",
                ToString(parserState.index)>>),
            l.calls)
     ELSE Returns(updateResults(l.nextState, ArrV(l.results)), l.calls)

\* Mutant of ErrorMapFn: the handler is given, and the failure keeps, the
\* position the parser was applied at.
ErrorMapFn_fromStart(parser, fn, parserState) ==
  LET r == ParserFn(parser, parserState)
      nextState == r.state
      calls == <<Applied(parser, parserState, r)>>
  IN IF ~r.halts THEN Abrupt(r, parserState, calls)
     ELSE IF ~nextState.isError THEN Returns(nextState, calls)
     ELSE Returns(
            updateError(
              [index |-> parserState.index] @@ nextState,
              errorMapFn(fn, nextState.errorMessage, parserState.index)),
            Append(calls, Called(fn, <<nextState.errorMessage,
                                       parserState.index>>)))

\* Parser.errorMap(fn), the wrapped function.
ErrorMapFn(parser, fn, parserState) ==
  LET r == ParserFn(parser, parserState)
      nextState == r.state
      calls == <<Applied(parser, parserState, r)>>
  IN IF ~r.halts THEN Abrupt(r, parserState, calls)
     ELSE IF ~nextState.isError THEN Returns(nextState, calls)
     ELSE Returns(
            updateError(
              nextState,
              errorMapFn(fn, nextState.errorMessage, nextState.index)),
            Append(calls, Called(fn, <<nextState.errorMessage,
                                       nextState.index>>)))

\* Mutant of lazyCalls: the thunk is called when the parser is built.
lazyCalls_eager(parserThunk) == <<Called(parserThunk, Undefined)>>

\* lazy, lines 375-376: the calls lazy(parserThunk) makes when it builds
\* the parser.
lazyCalls(parserThunk) == <<>>

\* lazy(parserThunk), the wrapped function.
LazyFn(parserThunk, parserState) ==
  LET p == callThunk(parserThunk)
      r == ParserFn(p, parserState)
      calls == <<Called(parserThunk, Undefined), Applied(p, parserState, r)>>
  IN IF ~r.halts THEN Abrupt(r, parserState, calls)
     ELSE Returns(r.state, calls)

\* fail(errMsg), the wrapped function.
FailFn(errMsg, parserState) == updateError(parserState, errMsg)

\* succeed(value), the wrapped function.
SucceedFn(value, parserState) == updateResults(parserState, value)

\* parser.parserStateTransformerFn(parserState).
ParserFn(parser, parserState) ==
  CASE parser.op = "str" -> Returns(StrFn(parser.s, parserState), <<>>)
    [] parser.op = "letters" -> Returns(LettersFn(parserState), <<>>)
    [] parser.op = "digits" -> Returns(DigitsFn(parserState), <<>>)
    [] parser.op = "sequenceOf" -> SequenceOfFn(parser.parsers, parserState)
    [] parser.op = "choice" -> ChoiceFn(parser.parsers, parserState)
    [] parser.op = "many" -> ManyFn(parser.parser, parserState)
    [] parser.op = "many1" -> Many1Fn(parser.parser, parserState)
    [] parser.op = "map" -> MapFn(parser.parser, parser.fn, parserState)
    [] parser.op = "chain" -> ChainFn(parser.parser, parser.fn, parserState)
    [] parser.op = "errorMap" ->
         ErrorMapFn(parser.parser, parser.fn, parserState)
    [] parser.op = "Bit" -> Returns(BitFn(parserState), <<>>)
    [] parser.op = "Zero" -> Returns(ZeroFn(parserState), <<>>)
    [] parser.op = "One" -> Returns(OneFn(parserState), <<>>)
    [] parser.op = "lazy" -> LazyFn(parser.parserThunk, parserState)
    [] parser.op = "fail" -> Returns(FailFn(parser.errMsg, parserState), <<>>)
    [] parser.op = "succeed" ->
         Returns(SucceedFn(parser.value, parserState), <<>>)
    [] parser.op = "sepBy" ->
         SepByFn(parser.separatorParser, parser.valueParser, parserState)
    [] parser.op = "sepBy1" ->
         SepBy1Fn(parser.separatorParser, parser.valueParser, parserState)

\* ---------------------------------------------------------------- inputs
\* The state reached over text tx once its first i characters are consumed:
\* the state Parser.run builds, then str(those characters) applied to it.
stateAt(tx, i) ==
  IF i = 0 THEN initialState(TextTarget(tx))
  ELSE StrFn(SubSeq(tx, 1, i), initialState(TextTarget(tx)))

\* The non-failed states over the texts of alphabet.
OkStatesOver(alphabet) ==
  UNION {{stateAt(tx, i) : i \in 0..Len(tx)} : tx \in Texts(alphabet, MaxLen)}

\* The non-failed states a combinator may be applied to.
OkStates == OkStatesOver(Alphabet)

\* The failed states a parser may be applied to: those a primitive returns
\* on a non-failed state.
ShortOkStates ==
  UNION {{stateAt(tx, i) : i \in 0..Len(tx)} : tx \in Texts(Alphabet, MaxLen - 1)}

FailedStates ==
  {st \in {StrFn(<<"a">>, s) : s \in ShortOkStates}
          \cup {DigitsFn(s) : s \in ShortOkStates} : st.isError}

\* The binary targets, and the non-failed states over them: the state run
\* builds, then Bit applied to it index times.
Bytes == {0, 234, 235}
Buffers == UNION {[1..n -> Bytes] : n \in 0..MaxBytes}

RECURSIVE bitStateAt(_, _)
bitStateAt(bytes, index) ==
  IF index = 0 THEN initialState(DataViewTarget(bytes))
  ELSE BitFn(bitStateAt(bytes, index - 1))

BitStates ==
  UNION {{bitStateAt(bytes, i) : i \in 0..(8 * Len(bytes))} : bytes \in Buffers}

\* The lists of Zero and One handed to sequenceOf, with the pattern of the
\* byte 234.
BitLists ==
  UNION {[1..k -> {Zero, One}] : k \in 0..MaxParsers}
    \cup {<<One, One, One, Zero, One, Zero, One, Zero>>}

\* The parsers handed to the combinators as sub-parsers.
Atoms == {str(<<>>), str(<<"a">>), str(<<"1">>), letters, digits}

Nested ==
  {sequenceOf(<<str(<<"a">>), str(<<"1">>)>>),
   choice(<<str(<<"_">>), digits>>),
   many(str(<<"a">>)),
   many1(digits),
   map(letters, "toArray")}

Pool == Atoms \cup Nested

\* The parser lists handed to sequenceOf and choice.
ParserLists == UNION {[1..k -> Pool] : k \in 0..MaxParsers}

\* Parsers whose generator yields a value that is not a parser, and the
\* lists of alternatives that hold one.
Throwers == {contextual("notParser"), contextual("lateNotParser")}
\* Parsers that succeed everywhere and consume nothing.
Idlers == {succeed(Null), succeed(StrV(<<"x">>))}

ThrowerLists ==
  {<<p, letters>> : p \in Throwers} \cup {<<str(<<"a">>), p>> : p \in Throwers}

\* ---------------------------------------------------------------- machine
VARIABLES
  pc,           \* "ready" before the application, "done" after it
                \* ("built" between the two for lazy, "ran" after a run)
  parser,       \* the parser applied
  parserState,  \* the state it is applied to
  outcome       \* what the application yields

vars == <<pc, parser, parserState, outcome, runs>>

NoParser == [op |-> "none"]

InitOn(states) ==
  /\ pc = "ready"
  /\ parser = NoParser
  /\ parserState \in states
  /\ outcome = Diverges(parserState, <<>>)
  /\ runs = <<>>

Init == InitOn(OkStates \cup FailedStates)

\* parser.parserStateTransformerFn(parserState) for the parser p.
Apply(p) ==
  /\ pc' = "done"
  /\ parser' = p
  /\ outcome' = ParserFn(p, parserState)
  /\ UNCHANGED <<parserState, runs>>

\* One action per parser constructor: the parser is built from the
\* arguments drawn and applied to the state.
Str ==
  /\ pc = "ready"
  /\ \E s \in Texts(WideAlphabet, MaxLit) : Apply(str(s))

Letters ==
  /\ pc = "ready"
  /\ Apply(letters)

Digits ==
  /\ pc = "ready"
  /\ Apply(digits)

SequenceOf ==
  /\ pc = "ready"
  /\ \E ps \in ParserLists \cup BitLists : Apply(sequenceOf(ps))

Choice ==
  /\ pc = "ready"
  /\ \E ps \in ParserLists \cup ThrowerLists : Apply(choice(ps))

Many ==
  /\ pc = "ready"
  /\ \E p \in Pool \cup Throwers \cup Idlers : Apply(many(p))

Many1 ==
  /\ pc = "ready"
  /\ \E p \in Pool \cup Throwers \cup Idlers : Apply(many1(p))

Map ==
  /\ pc = "ready"
  /\ \E p \in Pool, fn \in MapFns : Apply(map(p, fn))

Chain ==
  /\ pc = "ready"
  /\ \E p \in Pool, fn \in ChainFns : Apply(chain(p, fn))

ErrorMap ==
  /\ pc = "ready"
  /\ \E p \in Pool, fn \in ErrorMapFns : Apply(errorMap(p, fn))

\* The parsers that test isError on entry, and map and chain.
NextGuarded ==
  \/ Str
  \/ Letters
  \/ Digits
  \/ SequenceOf
  \/ Choice
  \/ Many
  \/ Many1
  \/ Map
  \/ Chain

\* The parsers handed to between, over texts with brackets.
BracketAlphabet == {"(", "a", ")"}
Lefts == {str(<<"(">>), many(str(<<"(">>))}
Rights == {str(<<")">>), many1(str(<<")">>))}
Contents == {str(<<"a">>), letters, many(str(<<"a">>)),
             sequenceOf(<<str(<<"a">>)>>)}

Between ==
  /\ pc = "ready"
  /\ \E l \in Lefts, r \in Rights, c \in Contents : Apply(between(l, r, c))

\* The parsers handed to sepBy and sepBy1.
Separators == {str(<<"_">>), str(<<>>), digits}
Values == {str(<<"a">>), str(<<>>), letters, many(str(<<"a">>)),
           sequenceOf(<<str(<<"a">>)>>), map(letters, "toArray"),
           map(letters, "toNull")}

SepBy ==
  /\ pc = "ready"
  /\ \E sep \in Separators, value \in Values \cup Throwers :
       Apply(sepBy(sep, value))

SepBy1 ==
  /\ pc = "ready"
  /\ \E sep \in Separators, value \in Values \cup Throwers :
       Apply(sepBy1(sep, value))

Fail ==
  /\ pc = "ready"
  /\ \E errMsg \in {<<"no">>, <<>>} : Apply(fail(errMsg))

Succeed ==
  /\ pc = "ready"
  /\ \E value \in {Null, StrV(<<"x">>)} : Apply(succeed(value))

Contextual ==
  /\ pc = "ready"
  /\ \E gen \in Generators : Apply(contextual(gen))

\* lazy(parserThunk) builds the parser; the parser built is applied in a
\* step of its own.
Lazy ==
  /\ pc = "ready"
  /\ \E thunk \in ParserThunks :
       /\ pc' = "built"
       /\ parser' = lazy(thunk)
       /\ outcome' = Diverges(parserState, lazyCalls(thunk))
       /\ UNCHANGED <<parserState, runs>>

ApplyLazy ==
  /\ pc = "built"
  /\ Apply(parser)

\* The parsers run more than once, and the texts they are run on.
RunParsers ==
  {contextual("pair"), contextual("typed"), lazy("number"),
   sequenceOf(<<letters, contextual("ret")>>), many(contextual("pair"))}
RunTexts == Texts({"a", "1"}, MaxLit)

\* Parser.run(target): the first run picks the parser, later runs are of
\* the same parser value.
Run ==
  /\ pc \in {"ready", "ran"}
  /\ Len(runs) < MaxRuns
  /\ \E p \in RunParsers, x \in RunTexts :
       LET target == TextTarget(x)
           r == ParserFn(p, initialState(target))
       IN /\ pc = "ran" => p = parser
          /\ pc' = "ran"
          /\ parser' = p
          /\ parserState' = initialState(target)
          /\ outcome' = r
          /\ runs' = Append(runs, [target |-> target,
                                   initialState |-> initialState(target),
                                   outcome |-> r])

ApplyBit ==
  /\ pc = "ready"
  /\ Apply(Bit)

ApplyZero ==
  /\ pc = "ready"
  /\ Apply(Zero)

ApplyOne ==
  /\ pc = "ready"
  /\ Apply(One)

Next ==
  \/ NextGuarded
  \/ ErrorMap
  \/ Between
  \/ SepBy
  \/ SepBy1
  \/ Fail
  \/ Succeed
  \/ Contextual
  \/ Lazy
  \/ ApplyLazy
  \/ Run
  \/ ApplyBit
  \/ ApplyZero
  \/ ApplyOne

Spec == Init /\ [][Next]_vars

\* The primitives on every non-failed state over the wide alphabet.
NextPrimitives ==
  \/ Str
  \/ Letters
  \/ Digits

InitWide == InitOn(OkStatesOver(WideAlphabet))
SpecPrimitives == InitWide /\ [][NextPrimitives]_vars

\* One combinator on every non-failed state.
InitOk == InitOn(OkStates)
SpecSequenceOf == InitOk /\ [][SequenceOf]_vars
SpecChoice == InitOk /\ [][Choice]_vars

\* chain on every state, failed or not.
SpecChain == Init /\ [][Chain]_vars

NextMany ==
  \/ Many
  \/ Many1

SpecMany == InitOk /\ [][NextMany]_vars

\* Every guarded parser on every failed state.
InitFailed == InitOn(FailedStates)
SpecFailed == InitFailed /\ [][NextGuarded]_vars

\* The parsers without a test of isError on every failed state.
NextUnguarded ==
  \/ ErrorMap
  \/ Fail
  \/ Succeed
  \/ SepBy
  \/ SepBy1
  \/ Contextual

SpecUnguarded == InitFailed /\ [][NextUnguarded]_vars

\* map on every state, failed or not.
SpecMap == Init /\ [][Map]_vars

\* errorMap on every non-failed state.
SpecErrorMap == InitOk /\ [][ErrorMap]_vars

\* contextual, and the combinators that may enclose it, on every non-failed
\* state over the shorter texts.
NextThrow ==
  \/ Contextual
  \/ Choice
  \/ Many
  \/ Many1
  \/ SepBy
  \/ SepBy1

InitShort == InitOn(ShortOkStates)
SpecThrow == InitShort /\ [][NextThrow]_vars

\* lazy on the texts of brackets around a digit, nested or not, balanced or
\* not, and on the short texts over the same characters.
NestingAlphabet == {"(", "1", ")"}
Brackets(c, n) == [k \in 1..n |-> c]
Nestings ==
  {Brackets("(", k) \o <<"1">> \o Brackets(")", j) :
     k \in 0..MaxDepth, j \in 0..MaxDepth}
NestingStates ==
  OkStatesOver(NestingAlphabet)
    \cup UNION {{stateAt(tx, i) : i \in 0..Len(tx)} : tx \in Nestings}

NextLazy ==
  \/ Lazy
  \/ ApplyLazy

SpecLazy == InitOn(NestingStates) /\ [][NextLazy]_vars

\* The six primitives on every non-failed state, over a text or over a
\* binary target.
NextKinds ==
  \/ Str
  \/ Letters
  \/ Digits
  \/ ApplyBit
  \/ ApplyZero
  \/ ApplyOne

SpecKinds == InitOn(ShortOkStates \cup BitStates) /\ [][NextKinds]_vars

\* The parsers that make failures of their own, on every non-failed state
\* over the shorter texts and on the state run builds over a binary target.
NextNames ==
  \/ Str
  \/ Letters
  \/ Digits
  \/ SequenceOf
  \/ Choice
  \/ Many1
  \/ SepBy1

KindStates ==
  ShortOkStates \cup {initialState(DataViewTarget(bytes)) : bytes \in Buffers}

SpecNames == InitOn(KindStates) /\ [][NextNames]_vars

\* Every parser on every state, failed or not, over the shorter texts and
\* the shorter binary targets.
ShortBitStates ==
  UNION {{bitStateAt(bytes, i) : i \in 0..(8 * Len(bytes))} :
           bytes \in UNION {[1..n -> Bytes] : n \in 0..(MaxBytes - 1)}}

NextApplied ==
  \/ NextGuarded
  \/ ErrorMap
  \/ Between
  \/ SepBy
  \/ SepBy1
  \/ Fail
  \/ Succeed
  \/ Contextual
  \/ Lazy
  \/ ApplyLazy
  \/ ApplyBit
  \/ ApplyZero
  \/ ApplyOne

SpecIndex ==
  InitOn(ShortOkStates \cup FailedStates \cup ShortBitStates)
    /\ [][NextApplied]_vars

\* The bit parsers and sequenceOf on every non-failed state over a binary
\* target.
NextBits ==
  \/ ApplyBit
  \/ ApplyZero
  \/ ApplyOne
  \/ SequenceOf

SpecBits == InitOn(BitStates) /\ [][NextBits]_vars

\* Runs of one parser, one after the other.
SpecRun == InitOn({initialState(TextTarget(<<>>))}) /\ [][Run]_vars

\* contextual on every non-failed state.
SpecContextual == InitOk /\ [][Contextual]_vars

\* The four repetitions on every non-failed state.
NextLoops ==
  \/ Many
  \/ Many1
  \/ SepBy
  \/ SepBy1

SpecLoops == InitOk /\ [][NextLoops]_vars

\* sepBy and sepBy1 on every non-failed state.
NextSepBy ==
  \/ SepBy
  \/ SepBy1

SpecSepBy == InitOk /\ [][NextSepBy]_vars

\* between on every non-failed state over the texts with brackets.
InitBrackets == InitOn(OkStatesOver(BracketAlphabet))
SpecBetween == InitBrackets /\ [][Between]_vars

\* ---------------------------------------------------------------- claims
\* The application is over and returned.
Returned == pc = "done" /\ outcome.halts

\* The calls a sequence combinator made.
calls == outcome.calls
lastCall == calls[Len(calls)]

\* The k-th call applied the k-th parser of the list to the state returned
\* by the call before it (the given state for the first), and returned.
ThreadedCall(k) ==
  LET c == calls[k]
  IN /\ c.call = "parser"
     /\ c.halts
     /\ k <= Len(parser.parsers)
     /\ c.parser = parser.parsers[k]
     /\ c.arg = (IF k = 1 THEN parserState ELSE calls[k - 1].ret)
     /\ c.ret = ParserFn(c.parser, c.arg).state

\* The results rs concatenated, a sequence contributing its elements and
\* any other result one element.
RECURSIVE flattenOnce(_)
flattenOnce(rs) ==
  IF rs = <<>> THEN <<>>
  ELSE (IF Head(rs).t = "arr" THEN Head(rs).v ELSE <<Head(rs)>>)
         \o flattenOnce(Tail(rs))

\* C1: sequenceOf(parsers) on a non-failed state applies the parsers in
\* list order, each to the state returned by the previous one; when all
\* succeed the returned index is the last parser's and the result is the
\* step results concatenated, flattened exactly one level.
C1_SequenceOfFlattensOneLevel ==
  (Returned /\ parser.op = "sequenceOf" /\ ~parserState.isError) =>
    /\ \A k \in 1..Len(calls) : ThreadedCall(k)
    /\ (\A k \in 1..Len(calls) : ~calls[k].ret.isError) =>
         /\ Len(calls) = Len(parser.parsers)
         /\ ~outcome.state.isError
         /\ outcome.state.target = parserState.target
         /\ outcome.state.index =
              (IF calls = <<>> THEN parserState.index ELSE lastCall.ret.index)
         /\ outcome.state.result =
              ArrV(flattenOnce([k \in 1..Len(calls) |-> calls[k].ret.result]))

\* C1 witness: sequenceOf([sequenceOf([a, b]), c]) yields the three results
\* side by side.
C1_Witness ==
  /\ Returned
  /\ parser = sequenceOf(<<sequenceOf(<<str(<<"a">>), str(<<"1">>)>>), letters>>)
  /\ parserState = initialState(TextTarget(<<"a", "1", "a">>))
  /\ outcome.state.index = 3
  /\ outcome.state.result =
       ArrV(<<StrV(<<"a">>), StrV(<<"1">>), StrV(<<"a">>)>>)

\* The sequence failed at its last call, the earlier calls having succeeded.
FailedAtLastCall ==
  /\ Returned
  /\ parser.op = "sequenceOf"
  /\ ~parserState.isError
  /\ outcome.state.isError

\* The parsers that leave the index where it was when they fail.
KeepsIndexOnFailure(p) == p.op \in {"str", "letters", "digits", "choice", "many1"}

\* C2 as stated: the failed state keeps the failing parser's message behind
\* "sequenceOf: " and its index, which is the position reached by the steps
\* that succeeded before it.
C2_FailureAtPositionReached ==
  FailedAtLastCall =>
    /\ outcome.state.errorMessage = <<"sequenceOf: ">> \o lastCall.ret.errorMessage
    /\ outcome.state.index = lastCall.ret.index
    /\ outcome.state.index = lastCall.arg.index

\* C2 amended: when the k-th parser is the first to fail no later parser is
\* applied, and the returned state is the failing parser's state with its
\* message behind "sequenceOf: "; its index is the failing parser's, which
\* is the position reached by the k-1 successful steps when the failing
\* parser is one that keeps the index on failure.
C2_FailureKeepsFailingState ==
  FailedAtLastCall =>
    /\ calls # <<>>
    /\ \A k \in 1..Len(calls) : ThreadedCall(k)
    /\ \A k \in 1..(Len(calls) - 1) : ~calls[k].ret.isError
    /\ lastCall.ret.isError
    /\ outcome.state =
         [lastCall.ret EXCEPT
            !.errorMessage = <<"sequenceOf: ">> \o lastCall.ret.errorMessage]
    /\ outcome.state.index = lastCall.ret.index
    /\ KeepsIndexOnFailure(lastCall.parser) =>
         outcome.state.index = lastCall.arg.index

\* C2 witness: the second parser fails after the first consumed input.
C2_Witness ==
  /\ FailedAtLastCall
  /\ Len(calls) = 2
  /\ KeepsIndexOnFailure(lastCall.parser)
  /\ outcome.state.index > parserState.index

\* The alternatives of the choice applied that succeed on the given state.
Succeeding ==
  {k \in 1..Len(parser.parsers) :
     ~ParserFn(parser.parsers[k], parserState).state.isError}

\* C3: choice applies every alternative it tries to the given state itself,
\* returns exactly the state of the lowest-numbered alternative that
\* succeeds on it, and when none succeeds (an empty list included) returns
\* a failed state with the index and result of the given state.
C3_ChoiceFirstMatchOnSameState ==
  (Returned /\ parser.op = "choice" /\ ~parserState.isError) =>
    /\ \A k \in 1..Len(calls) :
         /\ calls[k].call = "parser"
         /\ calls[k].parser = parser.parsers[k]
         /\ calls[k].arg = parserState
         /\ calls[k].ret = ParserFn(parser.parsers[k], parserState).state
    /\ IF Succeeding # {}
       THEN LET first == CHOOSE k \in Succeeding : \A j \in Succeeding : k <= j
            IN /\ Len(calls) = first
               /\ outcome.state = ParserFn(parser.parsers[first], parserState).state
       ELSE /\ Len(calls) = Len(parser.parsers)
            /\ outcome.state.isError
            /\ outcome.state.index = parserState.index
            /\ outcome.state.result = parserState.result
            /\ outcome.state.target = parserState.target

\* C3 witness: the first alternative consumed input before failing and the
\* second, applied to the given state, succeeds.
C3_Witness ==
  /\ Returned
  /\ parser.op = "choice"
  /\ ~parserState.isError
  /\ Len(calls) = 2
  /\ calls[1].ret.index > parserState.index
  /\ calls[2].arg = parserState
  /\ ~outcome.state.isError
  /\ outcome.state.index > parserState.index

\* The k-th attempt of a repetition applied the repeated parser to the
\* state returned by the attempt before it (the given state for the first).
RepeatedCall(k) ==
  LET c == calls[k]
  IN /\ c.call = "parser"
     /\ c.halts
     /\ c.parser = parser.parser
     /\ c.arg = (IF k = 1 THEN parserState ELSE calls[k - 1].ret)
     /\ c.ret = ParserFn(c.parser, c.arg).state

\* C4: many(p) on a non-failed state never returns a failed state; its
\* result holds one element per successful application, in order, and its
\* index is the one after the last successful application: the returned
\* state holds nothing of the final, failed, attempt.
C4_ManyNeverFails ==
  (Returned /\ parser.op = "many" /\ ~parserState.isError) =>
    LET n == Len(calls) - 1
        last == IF n = 0 THEN parserState ELSE calls[n].ret
    IN /\ calls # <<>>
       /\ \A k \in 1..Len(calls) : RepeatedCall(k)
       /\ \A k \in 1..n : ~calls[k].ret.isError
       /\ lastCall.ret.isError
       /\ ~outcome.state.isError
       /\ "errorMessage" \notin DOMAIN outcome.state
       /\ outcome.state.result = ArrV([k \in 1..n |-> calls[k].ret.result])
       /\ outcome.state.index = last.index
       /\ outcome.state.target = parserState.target

\* C4 witness: after two successes the final attempt consumed input and
\* then failed, and the returned index is the one before that attempt.
C4_Witness ==
  /\ Returned
  /\ parser.op = "many"
  /\ ~parserState.isError
  /\ Len(calls) >= 2
  /\ lastCall.ret.index > lastCall.arg.index
  /\ outcome.state.index = lastCall.arg.index
  /\ outcome.state.index > parserState.index

\* C5: many1(p) fails on a non-failed state exactly when many(p) yields an
\* empty sequence on it; when it fails the index is that of the given
\* state, and when it succeeds index and result are those of many(p).
C5_Many1FailsIffManyEmpty ==
  (pc = "done" /\ parser.op = "many1" /\ ~parserState.isError) =>
    LET m == ManyFn(parser.parser, parserState)
    IN /\ outcome.halts = m.halts
       /\ outcome.halts =>
            /\ outcome.state.isError <=> m.state.result = ArrV(<<>>)
            /\ outcome.state.isError =>
                 outcome.state.index = parserState.index
            /\ ~outcome.state.isError =>
                 /\ outcome.state.index = m.state.index
                 /\ outcome.state.result = m.state.result

\* C5 witness: many1 fails past the start of the text, where many returns
\* an empty sequence.
C5_Witness ==
  /\ Returned
  /\ parser.op = "many1"
  /\ ~parserState.isError
  /\ parserState.index > 0
  /\ outcome.state.isError
  /\ ManyFn(parser.parser, parserState).state.result = ArrV(<<>>)

\* C6 as stated: for every literal s, the empty one included, str(s) run on
\* a text that begins with s succeeds with result s and index length(s).
C6_StrMatchesEveryLiteral ==
  (/\ Returned
   /\ parser.op = "str"
   /\ parserState = initialState(parserState.target)
   /\ startsWith(parserState.target.chars, parser.s)) =>
    /\ ~outcome.state.isError
    /\ outcome.state.result = StrV(parser.s)
    /\ outcome.state.index = Len(parser.s)

\* A primitive failed on a non-failed text state.
PrimitiveFailed ==
  /\ Returned
  /\ parser.op \in {"str", "letters", "digits"}
  /\ ~parserState.isError
  /\ parserState.target.kind = "string"
  /\ outcome.state.isError

\* C7: when str, letters or digits fails on a non-failed text state the
\* returned state is failed and has the index, result and target of the
\* given state, also when a proper prefix of the literal matched.
C7_PrimitiveFailureConsumesNothing ==
  PrimitiveFailed =>
    /\ outcome.state.index = parserState.index
    /\ outcome.state.result = parserState.result
    /\ outcome.state.target = parserState.target

\* C7 witness: str fails on a text that holds a proper prefix of the
\* literal at the index.
C7_Witness ==
  /\ PrimitiveFailed
  /\ parser.op = "str"
  /\ parserState.index > 0
  /\ Len(parser.s) = 2
  /\ parserState.index < Len(parserState.target.chars)
  /\ parserState.target.chars[parserState.index + 1] = parser.s[1]

\* The character class [A-Za-z] or [0-9] of a class primitive.
ClassOf(p) ==
  IF p.op = "letters" THEN UpperCase \cup LowerCase ELSE DigitChars

\* C8: letters (digits) on a non-failed text state at index i succeeds
\* exactly when the character at i exists and is in the class; the result
\* is then the maximal run of class characters from i and the index is i
\* plus its length.
C8_ClassRunIsMaximal ==
  (/\ Returned
   /\ parser.op \in {"letters", "digits"}
   /\ ~parserState.isError
   /\ parserState.target.kind = "string") =>
    LET chars == parserState.target.chars
        i == parserState.index
        j == outcome.state.index
        class == ClassOf(parser)
    IN /\ ~outcome.state.isError <=> (i < Len(chars) /\ chars[i + 1] \in class)
       /\ ~outcome.state.isError =>
            /\ j > i
            /\ j <= Len(chars)
            /\ \A k \in (i + 1)..j : chars[k] \in class
            /\ j < Len(chars) => chars[j + 1] \notin class
            /\ outcome.state.result = StrV(SubSeq(chars, i + 1, j))

\* C8 witness: letters succeeds on a run of two letters, one of each case,
\* that a character outside the class follows.
C8_Witness ==
  /\ Returned
  /\ parser.op = "letters"
  /\ parserState = initialState(TextTarget(<<"Z", "a", "_">>))
  /\ ~outcome.state.isError
  /\ outcome.state.index = 2
  /\ outcome.state.result = StrV(<<"Z", "a">>)

\* The calls of callbacks among the calls made.
FnCalls == {k \in 1..Len(calls) : calls[k].call = "fn"}

\* C9: str, letters, digits, sequenceOf, choice, many and many1, and map
\* and chain over such a parser, applied to an already-failed state return
\* a state identical to it (index, result, target, error flag and message).
\* The primitives and the list and repetition combinators apply no
\* sub-parser; map and chain call no callback, and the one application they
\* make, of the parser they wrap to the failed state, returns that state
\* and (the wrapped parser being a primitive or a list or repetition
\* combinator) applies no sub-parser in its turn.
C9_FailedStatePassesThrough ==
  (pc = "done" /\ parserState.isError) =>
    /\ outcome.halts
    /\ outcome.state = parserState
    /\ FnCalls = {}
    /\ parser.op \notin {"map", "chain"} => calls = <<>>
    /\ parser.op \in {"map", "chain"} =>
         /\ Len(calls) = 1
         /\ calls[1].call = "parser"
         /\ calls[1].parser = parser.parser
         /\ calls[1].arg = parserState
         /\ calls[1].ret = parserState
         /\ parser.parser.op \notin {"map", "chain"} =>
              ParserFn(parser.parser, parserState).calls = <<>>

\* C9 witness: a sequenceOf of two parsers applied to a state that failed
\* past the start of its text.
C9_Witness ==
  /\ pc = "done"
  /\ parserState.isError
  /\ parserState.index > 0
  /\ parser.op = "sequenceOf"
  /\ Len(parser.parsers) = 2
  /\ outcome.state = parserState

\* C10: p.chain(k) on a state s returns the failed state of p, without
\* calling k, when p fails on s; when p succeeds with state s1 it calls k
\* once, with the result of s1, applies the parser k returns to s1, and
\* returns the state that parser returns.
C10_ChainContinuesFromAdvancedState ==
  (pc = "done" /\ parser.op = "chain") =>
    LET first == ParserFn(parser.parser, parserState)
        s1 == first.state
        nextParser == chainFn(parser.fn, s1.result)
        second == ParserFn(nextParser, s1)
    IN /\ first.halts
       /\ s1.isError =>
            /\ outcome.halts
            /\ outcome.state = s1
            /\ calls = <<Applied(parser.parser, parserState, first)>>
       /\ ~s1.isError =>
            /\ outcome.halts = second.halts
            /\ outcome.halts => outcome.state = second.state
            /\ Cardinality(FnCalls) = 1
            /\ calls = <<Applied(parser.parser, parserState, first),
                         Called(parser.fn, s1.result),
                         Applied(nextParser, s1, second)>>

\* C10 witness: p consumed input and the parser returned by k consumed
\* more, from where p stopped.
C10_Witness ==
  /\ Returned
  /\ parser.op = "chain"
  /\ ~parserState.isError
  /\ Len(calls) = 3
  /\ calls[1].ret.index > parserState.index
  /\ calls[3].arg = calls[1].ret
  /\ ~outcome.state.isError
  /\ outcome.state.index > calls[1].ret.index

\* C11: p.map(f) on a state s returns, when p succeeds with state s1, s1
\* with its result replaced by f(result) and the same index, target and
\* non-error status; when p fails it returns exactly the failed state of p
\* and f is not called.
C11_MapReplacesResultOnly ==
  (pc = "done" /\ parser.op = "map") =>
    LET first == ParserFn(parser.parser, parserState)
        s1 == first.state
    IN /\ first.halts
       /\ outcome.halts
       /\ s1.isError =>
            /\ outcome.state = s1
            /\ calls = <<Applied(parser.parser, parserState, first)>>
       /\ ~s1.isError =>
            /\ outcome.state = [s1 EXCEPT !.result = mapFn(parser.fn, s1.result)]
            /\ outcome.state.index = s1.index
            /\ outcome.state.target = s1.target
            /\ ~outcome.state.isError
            /\ calls = <<Applied(parser.parser, parserState, first),
                         Called(parser.fn, s1.result)>>

\* C11 witness: p consumed input past the start of the text and its result
\* is replaced by the array holding it.
C11_Witness ==
  /\ Returned
  /\ parser.op = "map"
  /\ parser.fn = "toArray"
  /\ ~parserState.isError
  /\ parserState.index > 0
  /\ ~outcome.state.isError
  /\ outcome.state.index > parserState.index
  /\ outcome.state.result = ArrV(<<calls[1].ret.result>>)

\* C12: p.errorMap(h) on a non-failed state s returns, when p succeeds,
\* exactly the state of p and h is not called; when p fails with message m
\* at index i it returns a failed state whose message is h(m, i) and whose
\* index, result and target are those of the failed state of p.
C12_ErrorMapReplacesMessageOnly ==
  (pc = "done" /\ parser.op = "errorMap") =>
    LET first == ParserFn(parser.parser, parserState)
        s1 == first.state
    IN /\ first.halts
       /\ outcome.halts
       /\ ~s1.isError =>
            /\ outcome.state = s1
            /\ calls = <<Applied(parser.parser, parserState, first)>>
       /\ s1.isError =>
            /\ outcome.state.isError
            /\ outcome.state.errorMessage =
                 errorMapFn(parser.fn, s1.errorMessage, s1.index)
            /\ outcome.state.index = s1.index
            /\ outcome.state.result = s1.result
            /\ outcome.state.target = s1.target
            /\ calls = <<Applied(parser.parser, parserState, first),
                         Called(parser.fn, <<s1.errorMessage, s1.index>>)>>

\* C12 witness: p failed past the position it was applied at, after a
\* result had been parsed, and the message names that later index.
C12_Witness ==
  /\ Returned
  /\ parser.op = "errorMap"
  /\ parser.fn = "atIndex"
  /\ parserState.result # Null
  /\ outcome.state.isError
  /\ outcome.state.index > parserState.index
  /\ outcome.state.errorMessage =
       <<"error at index ", ToString(outcome.state.index)>>

\* The applications made by the sequenceOf that between builds.
betweenCalls == ParserFn(parser.parser, parserState).calls

\* between was applied and left, content and right succeeded in sequence.
BetweenSucceeded ==
  /\ Returned
  /\ parser.op = "map"
  /\ parser.fn = "between"
  /\ ~parserState.isError
  /\ ~outcome.state.isError

\* C13: whenever left, content and right succeed in sequence,
\* between(left, right)(content) yields exactly the result of content
\* (a scalar stays a scalar, a sequence stays that sequence).
C13_BetweenYieldsBareContent ==
  BetweenSucceeded => outcome.state.result = betweenCalls[2].ret.result

\* C14: when left, content and right each succeed with a scalar result,
\* between(left, right)(content) yields the one-element sequence holding
\* the result of content, at the index after right.
C14_BetweenWrapsScalarContent ==
  (/\ BetweenSucceeded
   /\ \A k \in 1..3 : ~isArray(betweenCalls[k].ret.result)) =>
    /\ outcome.state.result = ArrV(<<betweenCalls[2].ret.result>>)
    /\ outcome.state.index = betweenCalls[3].ret.index
    /\ betweenCalls[2].parser = parser.parser.parsers[2]
    /\ betweenCalls[2].arg = betweenCalls[1].ret
    /\ betweenCalls[3].arg = betweenCalls[2].ret

\* C14 witness: between(str("("), str(")"))(letters) on "(a)".
C14_Witness ==
  /\ BetweenSucceeded
  /\ parser = between(str(<<"(">>), str(<<")">>), letters)
  /\ parserState = initialState(TextTarget(<<"(", "a", ")">>))
  /\ outcome.state.result = ArrV(<<StrV(<<"a">>)>>)
  /\ outcome.state.index = 3

\* The value applications of sepBy and sepBy1 are the odd calls, the
\* separator applications the even ones.
valueCalls == {k \in 1..Len(calls) : k % 2 = 1}
collected == {k \in valueCalls : ~calls[k].ret.isError}

\* C15: sepBy(sep)(value) applied to a non-failed state never returns a
\* failed state.  It applies value then sep in turn, each to the state the
\* previous application returned, until one of them fails; its result is
\* the sequence of the results of the successful value applications, in
\* order and each kept as it is; its index is that of the last successful
\* application, the index it was given when the first value fails.
C15_SepByCollectsValuesInOrder ==
  (Returned /\ parser.op = "sepBy" /\ ~parserState.isError) =>
    LET n == Len(calls)
        last == IF n = 1 THEN parserState ELSE calls[n - 1].ret
    IN /\ ~outcome.state.isError
       /\ n >= 1
       /\ \A k \in 1..n :
            /\ calls[k].parser = IF k % 2 = 1 THEN parser.valueParser
                                 ELSE parser.separatorParser
            /\ calls[k].arg = IF k = 1 THEN parserState ELSE calls[k - 1].ret
            /\ calls[k].ret.isError <=> k = n
       /\ outcome.state.result =
            ArrV([i \in 1..Cardinality(collected) |-> calls[2 * i - 1].ret.result])
       /\ outcome.state.index = last.index
       /\ outcome.state.target = parserState.target
       /\ calls[1].ret.isError =>
            /\ outcome.state.result = ArrV(<<>>)
            /\ outcome.state.index = parserState.index

\* C15 witness: two values with array results and a separator between them
\* are parsed, and the arrays are the elements of the result.
C15_Witness ==
  /\ Returned
  /\ parser.op = "sepBy"
  /\ ~parserState.isError
  /\ Cardinality(collected) = 2
  /\ outcome.state.result =
       ArrV(<<ArrV(<<StrV(<<"a">>)>>), ArrV(<<StrV(<<"a">>)>>)>>)
  /\ outcome.state.index = 3

\* C16: on every non-failed state, whatever kind of result value produces,
\* sepBy1(sep)(value) fails, at the index it was given, exactly when
\* sepBy(sep)(value) collects no value there, and otherwise returns the
\* index and the sequence of values sepBy(sep)(value) returns.
C16_SepBy1IsSepByOrFailure ==
  (Returned /\ parser.op = "sepBy1" /\ ~parserState.isError) =>
    LET sb == SepByFn(parser.separatorParser, parser.valueParser, parserState)
    IN /\ sb.halts
       /\ outcome.state.isError <=> sb.state.result = ArrV(<<>>)
       /\ outcome.state.isError => outcome.state.index = parserState.index
       /\ ~outcome.state.isError =>
            /\ outcome.state.index = sb.state.index
            /\ outcome.state.result = sb.state.result

\* The generators that yield parsers only.
ParserGenerators == {"ret", "pair", "typed"}

\* p1.chain(r1 => p2.chain(r2 => ... succeed(ret))) applied to s, for the
\* generator gen already sent the values of sent: the state it returns and
\* the number of yielded parsers that succeeded.
RECURSIVE nestedChain(_, _, _)
nestedChain(gen, sent, s) ==
  LET step == generatorBody(gen, sent)
      r == ParserFn(step.value, s)
  IN IF step.done
     THEN [state |-> updateResults(s, step.value), succeeded |-> Len(sent)]
     ELSE IF r.state.isError
     THEN [state |-> r.state, succeeded |-> Len(sent)]
     ELSE nestedChain(gen, Append(sent, r.state.result), r.state)

\* The number of times the chain p applied to s called its callback, and
\* the chain that callback returned called its own, and so on: the number
\* of times the iterator was resumed.
RECURSIVE resumptions(_, _)
resumptions(p, s) ==
  LET c == ParserFn(p, s).calls
  IN IF p.op # "chain" \/ Len(c) < 2 THEN 0
     ELSE IF Len(c) < 3 THEN 1
     ELSE 1 + resumptions(c[3].parser, c[3].arg)

\* contextual was applied, to a non-failed state, with a generator that
\* yields parsers only.
ContextualApplied ==
  /\ Returned
  /\ parser.op = "chain"
  /\ parser.fn.fn = "contextual"
  /\ parser.fn.generatorFn \in ParserGenerators
  /\ ~parserState.isError

\* C17 as stated: contextual(gen) applied to a non-failed state s returns
\* the state that the nested chain of the yielded parsers returns on s.
C17_ContextualIsNestedChain ==
  ContextualApplied =>
    outcome.state = nestedChain(parser.fn.generatorFn, <<>>, parserState).state

\* C17 amended: contextual(gen) applied to a non-failed state s returns
\* the state that the nested chain of the yielded parsers returns on s
\* with its result replaced by null (the state succeed(null) hands on), and
\* the iterator is resumed once to start it and once more for each yielded
\* parser that succeeded, so not after the one that failed.
C17_ContextualIsNestedChainFromNull ==
  ContextualApplied =>
    LET nested == nestedChain(parser.fn.generatorFn, <<>>,
                              updateResults(parserState, Null))
    IN /\ outcome.state = nested.state
       /\ resumptions(parser, parserState) = 1 + nested.succeeded

\* C17 witness: the second parser of "typed", the one chosen by the first
\* result, failed after the first had consumed input, and its failed
\* state is returned.
C17_Witness ==
  /\ ContextualApplied
  /\ parser.fn.generatorFn = "typed"
  /\ outcome.state.isError
  /\ outcome.state.index = parserState.index + 1
  /\ outcome.state = DigitsFn(outcome.state)
  /\ outcome.state.result = StrV(<<"a">>)
  /\ resumptions(parser, parserState) = 2

\* The generator gen, already sent the values of sent and its yielded
\* parsers applied from s on, comes to yield a value that is not a parser
\* before any of them fails.
RECURSIVE reachesNonParser(_, _, _)
reachesNonParser(gen, sent, s) ==
  LET step == generatorBody(gen, sent)
      r == ParserFn(step.value, s)
  IN IF step.done THEN FALSE
     ELSE IF ~isParser(step.value) THEN TRUE
     ELSE IF r.state.isError THEN FALSE
     ELSE reachesNonParser(gen, Append(sent, r.state.result), r.state)

\* The direct applications of a sub-parser that ended by throwing.
thrownCalls ==
  {k \in 1..Len(calls) : calls[k].call = "parser" /\ calls[k].thrown}

\* C18: an application of contextual whose generator comes to yield a value
\* that is not a parser ends by throwing and returns no state, failed or
\* not; and a choice, many, many1, sepBy or sepBy1 one of whose
\* sub-parser applications ends by throwing makes no further application
\* and ends by throwing too.
C18_NonParserYieldThrows ==
  (pc = "done" /\ ~parserState.isError) =>
    /\ (parser.op = "chain" /\ parser.fn.fn = "contextual") =>
         /\ outcome.thrown <=>
              reachesNonParser(parser.fn.generatorFn, <<>>,
                               updateResults(parserState, Null))
         /\ outcome.thrown => ~outcome.halts
    /\ (parser.op \in {"choice", "many", "many1", "sepBy", "sepBy1"}
          /\ thrownCalls # {}) =>
         /\ thrownCalls = {Len(calls)}
         /\ outcome.thrown
         /\ ~outcome.halts

\* C18 witness: the first alternative of a choice is a contextual that
\* throws after its first yielded parser consumed input; letters, the
\* second alternative, is not tried.
C18_Witness ==
  /\ pc = "done"
  /\ parser = choice(<<contextual("lateNotParser"), letters>>)
  /\ ~parserState.isError
  /\ Len(calls) = 1
  /\ calls[1].thrown
  /\ outcome.thrown
  /\ LettersFn(parserState).index > parserState.index

\* The number of brackets text opens before its digit, and of those that
\* close straight after it.
RECURSIVE leading(_, _)
leading(c, text) ==
  IF text # <<>> /\ Head(text) = c THEN 1 + leading(c, Tail(text)) ELSE 0

opened(text) == leading("(", text)
closed(text) == leading(")", SubSeq(text, opened(text) + 2, Len(text)))

\* The text is k brackets opened, a digit, and brackets closed.
IsNesting(text) ==
  /\ Len(text) > opened(text)
  /\ text[opened(text) + 1] = "1"
  /\ opened(text) + 1 + closed(text) = Len(text)

\* C19: lazy(thunk) makes no call of thunk when it builds the parser; an
\* application of that parser to s calls thunk once, applies the parser it
\* returns to s and returns the state that application returns; and the
\* grammar expr = lazy(() => choice([number, operation])), operation being
\* expr between brackets, applied at the start of k opening brackets, a
\* digit and j closing brackets succeeds exactly when j >= k, whatever k,
\* and then ends after the k-th closing bracket.
C19_LazyCallsThunkWhenApplied ==
  /\ pc = "built" => outcome.calls = <<>>
  /\ (pc = "done" /\ parser.op = "lazy") =>
       /\ Len(calls) = 2
       /\ calls[1] = Called(parser.parserThunk, Undefined)
       /\ calls[2].call = "parser"
       /\ calls[2].parser = callThunk(parser.parserThunk)
       /\ calls[2].arg = parserState
       /\ outcome.halts
       /\ outcome.state = calls[2].ret
  /\ (pc = "done" /\ parser = lazy("expr") /\ parserState.index = 0
        /\ IsNesting(parserState.target.chars)) =>
       LET text == parserState.target.chars
       IN /\ outcome.state.isError <=> closed(text) < opened(text)
          /\ ~outcome.state.isError =>
               outcome.state.index = 2 * opened(text) + 1

\* C19 witness: expr parsed a digit inside MaxDepth pairs of brackets.
C19_Witness ==
  /\ Returned
  /\ parser = lazy("expr")
  /\ parserState.index = 0
  /\ IsNesting(parserState.target.chars)
  /\ opened(parserState.target.chars) = 2
  /\ ~outcome.state.isError
  /\ outcome.state.index = 5
  /\ outcome.state.result = ArrV(<<StrV(<<"1">>)>>)

WrongKind ==
  /\ pc = "done"
  /\ ~parserState.isError
  /\ \/ /\ parser.op \in {"str", "letters", "digits"}
        /\ parserState.target.kind = "DataView"
     \/ /\ parser.op \in {"Bit", "Zero", "One"}
        /\ parserState.target.kind = "string"

\* C21: every primitive applied to a non-failed state over a target of the
\* kind it does not support returns a failed state that carries an error
\* message and the index it was given.
C21_WrongKindFails ==
  WrongKind =>
    /\ outcome.halts
    /\ outcome.state # Undefined
    /\ outcome.state.isError
    /\ "errorMessage" \in DOMAIN outcome.state
    /\ outcome.state.index = parserState.index

\* The byte written in binary, most significant bit first, by halving.
RECURSIVE binary(_, _)
binary(n, width) ==
  IF width = 0 THEN <<>> ELSE Append(binary(n \div 2, width - 1), n % 2)

\* The bits of a buffer, byte after byte.
RECURSIVE bitStream(_)
bitStream(bytes) ==
  IF bytes = <<>> THEN <<>>
  ELSE binary(Head(bytes), 8) \o bitStream(Tail(bytes))

\* The bit each parser of a list of Zero and One asks for.
pattern(parsers) ==
  [k \in 1..Len(parsers) |-> IF parsers[k] = One THEN 1 ELSE 0]

\* A parser was applied to a non-failed state over a binary target.
OnBits ==
  /\ Returned
  /\ ~parserState.isError
  /\ parserState.target.kind = "DataView"

\* C22: on a buffer of n bytes and a non-failed state at bit index i, Bit
\* succeeds exactly when i < 8n, with the i-th bit of the buffer (most
\* significant bit of each byte first) as result and index i + 1; Zero
\* (One) succeeds exactly when that bit is there and is 0 (1), with the
\* state Bit returns, and otherwise fails with the index left at i; and a
\* sequenceOf of k Zero and One succeeds exactly when the k bits from i on
\* are those asked for, with index i + k.
C22_BitsAreReadMsbFirst ==
  OnBits =>
    LET i == parserState.index
        stream == bitStream(parserState.target.bytes)
        inside == i < 8 * Len(parserState.target.bytes)
    IN /\ parser.op = "Bit" =>
            /\ ~outcome.state.isError <=> inside
            /\ inside => /\ outcome.state.result = NumV(stream[i + 1])
                         /\ outcome.state.index = i + 1
       /\ parser.op \in {"Zero", "One"} =>
            LET expected == IF parser.op = "One" THEN 1 ELSE 0
            IN /\ ~outcome.state.isError <=>
                    (inside /\ stream[i + 1] = expected)
               /\ ~outcome.state.isError =>
                    outcome.state = BitFn(parserState)
               /\ outcome.state.isError => outcome.state.index = i
       /\ (parser.op = "sequenceOf"
             /\ \A k \in 1..Len(parser.parsers) :
                  parser.parsers[k] \in {Zero, One}) =>
            LET k == Len(parser.parsers)
            IN /\ ~outcome.state.isError <=>
                    /\ i + k <= Len(stream)
                    /\ SubSeq(stream, i + 1, i + k) = pattern(parser.parsers)
               /\ ~outcome.state.isError => outcome.state.index = i + k

\* C22 witness: the eight parsers One, One, One, Zero, One, Zero, One,
\* Zero take the byte 234 of the buffer 234, 235.
C22_Witness ==
  /\ OnBits
  /\ parser = sequenceOf(<<One, One, One, Zero, One, Zero, One, Zero>>)
  /\ parserState = initialState(DataViewTarget(<<234, 235>>))
  /\ ~outcome.state.isError
  /\ outcome.state.index = 8

\* The name a message opens with, up to its first colon, read off the
\* first piece of the message.
leadingName(message) ==
  CASE message[1] = "str: Tried to match " -> "str"
    [] message[1] \in {"letters", "letters: Tried to match "} -> "letters"
    [] message[1] = "digits" -> "digits"
    [] message[1] = "sequenceOf: " -> "sequenceOf"
    [] message[1] = "choice: Unable to match with any parser at index " ->
         "choice"
    [] message[1] =
         "many1: Unable to match any input using parser at index " -> "many1"
    [] message[1] = "sep1: Unable to parse any results at index " -> "sep1"
    [] OTHER -> "other"

\* One of the parsers that make failures of their own returned a failed
\* state from a non-failed one.
MadeFailure ==
  /\ Returned
  /\ ~parserState.isError
  /\ parser.op \in {"str", "letters", "digits", "sequenceOf", "choice",
                    "many1", "sepBy1"}
  /\ outcome.state.isError

\* C23: a failed state that str, letters, digits, sequenceOf, choice, many1
\* or sepBy1 makes from a non-failed state carries a message that opens
\* with the name of that parser, on every branch that fails, and the index
\* of the failure: the index the parser was given, or for sequenceOf the
\* index of the state its failing parser returned.
C23_MessageNamesItsParser ==
  MadeFailure =>
    /\ leadingName(outcome.state.errorMessage) = parser.op
    /\ outcome.state.index =
         (IF parser.op = "sequenceOf" THEN lastCall.ret.index
          ELSE parserState.index)



\* The length of a target: characters of a text, bits of a binary target.
targetLength(target) ==
  IF target.kind = "string" THEN Len(target.chars) ELSE 8 * Len(target.bytes)

repeated ==
  IF parser.op \in {"many", "many1"} THEN parser.parser
  ELSE parser.valueParser

\* The applications of the repeated parser that succeeded and left the
\* index where it was.
idleCalls ==
  {k \in 1..Len(calls) :
     /\ calls[k].parser = repeated
     /\ calls[k].halts
     /\ ~calls[k].ret.isError
     /\ calls[k].ret.index = calls[k].arg.index}

\* A repetition was applied to a non-failed state and none of the
\* applications it made failed to return.
LoopApplied ==
  /\ pc = "done"
  /\ parser.op \in {"many", "many1", "sepBy", "sepBy1"}
  /\ ~parserState.isError
  /\ \A k \in 1..Len(calls) : calls[k].halts

\* C25: many(p), many1(p), sepBy(sep)(p) and sepBy1(sep)(p) applied to a
\* non-failed state return when every application of p that succeeds
\* moves the index on; and many(p) and many1(p) do not return when an
\* application of p succeeds and leaves the index where it was.
C25_LoopsEndWhenValueAdvances ==
  LoopApplied =>
    /\ idleCalls = {} => outcome.halts
    /\ (parser.op \in {"many", "many1"} /\ idleCalls # {}) => ~outcome.halts

\* C25 witness: many(str("")) before the end of a text does not return,
\* the empty literal having matched there without moving the index.
C25_Witness ==
  /\ LoopApplied
  /\ parser = many(str(<<>>))
  /\ parserState.index < Len(parserState.target.chars)
  /\ idleCalls # {}
  /\ ~outcome.halts
  /\ ~outcome.thrown

\* C26: errorMap, fail, succeed, sepBy, sepBy1 and contextual applied to a
\* failed state return a state with the error message, the result and the
\* index of that state.
C26_UnguardedPassFailureThrough ==
  (Returned /\ parserState.isError) =>
    /\ outcome.state.isError
    /\ outcome.state.errorMessage = parserState.errorMessage
    /\ outcome.state.result = parserState.result
    /\ outcome.state.index = parserState.index

\* sepBy or sepBy1 was applied to a non-failed state and stopped at its
\* n-th application, after at least one that succeeded.
SepStopped ==
  /\ Returned
  /\ parser.op \in {"sepBy", "sepBy1"}
  /\ ~parserState.isError
  /\ Len(calls) >= 2

\* C27: when sepBy(sep)(value) or sepBy1(sep)(value) stops at a value
\* that fails after a separator that succeeded, the index returned is the
\* one that separator returned (the separator stays consumed); when it
\* stops at a separator that fails, the index returned is the one the
\* last value returned.
C27_TrailingSeparatorStaysConsumed ==
  SepStopped =>
    LET n == Len(calls)
    IN /\ calls[n].ret.isError
       /\ calls[n - 1].parser =
            (IF n % 2 = 1 THEN parser.separatorParser ELSE parser.valueParser)
       /\ ~calls[n - 1].ret.isError
       /\ outcome.state.index = calls[n - 1].ret.index

====
